---- MODULE Spec2Model ----
(***************************************************************************)
(* Game of Life: the Grid storage engine (grid.cpp), the World stepper     *)
(* (world.cpp), and the glider and the ascii and binary file codecs of the *)
(* Zoo (zoo.cpp).                                                          *)
(*                                                                         *)
(* A Grid is a record [width, height, grid]; the field `grid` is the flat  *)
(* std::vector<Cell>, kept as a sequence: the C++ element grid[i] is       *)
(* grid[i + 1] here.  A World is a record [currentGrid, nextGrid].         *)
(*                                                                         *)
(* std::vector::operator[] is unchecked.  A read past the end of a buffer  *)
(* is undefined behaviour: the operators that can perform one return the   *)
(* SET of grids the read can produce (each such cell drawn from Byte:     *)
(* DEAD, ALIVE or a byte that is neither), and the actions add the outcome *)
(* in which the read faults and the program ends.  std::bitset::operator[] *)
(* is unchecked too, and the binary codecs are modelled in the same way.   *)
(***************************************************************************)
EXTENDS Integers, Sequences, FiniteSets, TLC

\* ------------------------------------------------------------------ bounds
\* Largest width, height and square size handed to constructors and resize.
MaxDim == 2
\* Largest number of cells of the grid handed to merge as `other`.
MaxOtherCells == 2
\* Largest |rotation| handed to rotate.
MaxTurns == 5
\* Largest step count handed to advance.
MaxSteps == 2
\* Largest number of resize, step and advance calls made on one World.
MaxCalls == 2

\* Largest width and height of the grids handed to rotate on their own.
MaxRotateDim == 3

\* Side of the square World a glider is placed in.
GliderWorldSide == 10
\* Largest step count handed to advance on a World holding a glider.
MaxGliderSteps == 4

\* Longest line of a text file handed to load_ascii.
MaxLineLen == 3
\* Largest number of data bytes of a short binary file handed to load_binary.
MaxDataBytes == 2
\* The grids handed to save_binary alongside the small ones have from
\* MaxUnder cells fewer to MaxOver cells more than the codec's bitset has
\* bits; the long files handed to load_binary have up to MaxOver bytes more
\* than the bitset has bits.
MaxUnder == 4
MaxOver == 1

\* Largest width and height, and largest number of cells, of the grids
\* count_neighbours is applied to on its own.
MaxNeighbourDim == 3
MaxNeighbourCells == 9

\* ------------------------------------------------------------------- cells
DEAD == " "
ALIVE == "#"
Cell == {DEAD, ALIVE}

\* A byte that is neither of the two: Cell is an enum over char, and a read
\* outside a buffer yields whatever byte lies there.
JUNK == "?"
Byte == Cell \cup {JUNK}

Dims == 0..MaxDim
\* Coordinates handed to set and crop: MaxDim is outside every grid.
Coords == 0..MaxDim

\* The C++ operator % on int truncates towards zero.
CRem(a, b) == IF a >= 0 THEN a % b ELSE -((-a) % b)

Min(a, b) == IF a < b THEN a ELSE b

\* ------------------------------------------------------------- Grid: build
\* Grid::Grid(width, height): all cells DEAD.
GridWH(w, h) == [width |-> w, height |-> h, grid |-> [i \in 1..(w * h) |-> DEAD]]

\* Grid::Grid(square_size)
GridSquare(s) == [width |-> s, height |-> s, grid |-> [i \in 1..(s * s) |-> DEAD]]

\* Grid::Grid()
GridDefault == [width |-> 0, height |-> 0, grid |-> [i \in 1..0 |-> DEAD]]

get_total_cells(g) == g.width * g.height

get_index(g, x, y) == (g.width * y) + x

\* The bounds test refusing the last column as well.
OutOfRange_LastColumn(g, x, y) == x + 1 >= g.width \/ y >= g.height

\* True when the accessors throw for (x, y).
OutOfRange(g, x, y) == x >= g.width \/ y >= g.height

\* A buffer index that operator[] can read or write without leaving the vector.
InBuffer(buf, idx) == idx >= 0 /\ idx < Len(buf)

\* Grid::get(x, y) for an in-range coordinate.
get(g, x, y) == g.grid[get_index(g, x, y) + 1]

\* Grid::get(x, y) as called from outside: [value, thrown].
Grid_get(g, x, y) ==
    IF OutOfRange(g, x, y)
    THEN [value |-> DEAD, thrown |-> TRUE]
    ELSE [value |-> g.grid[get_index(g, x, y) + 1], thrown |-> FALSE]

\* Grid::operator()(x, y), const and non-const: [index, thrown], the
\* reference returned being the element `index` of the buffer.
operator_call(g, x, y) ==
    IF OutOfRange(g, x, y)
    THEN [index |-> 0, thrown |-> TRUE]
    ELSE [index |-> get_index(g, x, y), thrown |-> FALSE]

\* set that writes the cell and also clears the first cell of the buffer.
set_AlsoClearsFirst(g, x, y, value) ==
    IF OutOfRange(g, x, y)
    THEN [g |-> g, thrown |-> TRUE]
    ELSE [g |-> [g EXCEPT !.grid = [k \in 1..Len(g.grid) |->
                                      IF k = 1 THEN DEAD
                                      ELSE IF k = get_index(g, x, y) + 1 THEN value
                                      ELSE g.grid[k]]],
          thrown |-> FALSE]

\* Grid::set(x, y, value): [g, thrown].
set(g, x, y, value) ==
    IF OutOfRange(g, x, y)
    THEN [g |-> g, thrown |-> TRUE]
    ELSE [g |-> [g EXCEPT !.grid[get_index(g, x, y) + 1] = value], thrown |-> FALSE]

\* All grids the constructors and set can build with the given dimensions.
GridsOfSize(w, h) ==
    {[width |-> w, height |-> h, grid |-> c] : c \in [1..(w * h) -> Cell]}

\* All grids a program can hold with the given dimensions: a byte read
\* outside a buffer by resize or rotate is stored, and crop and merge copy it
\* to any place.
StoredGridsOfSize(w, h) ==
    {[width |-> w, height |-> h, grid |-> c] : c \in [1..(w * h) -> Byte]}

\* Grid::get_alive_cells and Grid::get_dead_cells: the stored cells equal to
\* ALIVE, and those equal to DEAD.
get_alive_cells(g) == Cardinality({i \in 1..get_total_cells(g) : g.grid[i] = ALIVE})

get_dead_cells(g) == Cardinality({i \in 1..get_total_cells(g) : g.grid[i] = DEAD})

\* ------------------------------------------------------------ Grid: resize
\* resize with the assignments to width and height left out.
resize_KeepsSize(g, w, h) ==
    [width |-> g.width, height |-> g.height, grid |-> [k \in 1..(w * h) |-> DEAD]]

\* resize whose inner loop stops one column early.
resize_DropsColumn(g, w, h) ==
    LET minWidth == Min(w, g.width)
        minHeight == Min(h, g.height)
    IN [width |-> w, height |-> h,
        grid |-> [k \in 1..(w * h) |->
                    LET x == (k - 1) % w
                        y == (k - 1) \div w
                    IN IF y < minHeight /\ x + 1 < minWidth
                       THEN g.grid[(g.width * y) + x + 1]
                       ELSE DEAD]]

\* Grid::resize(width, height).  Every stored Cell is a non-zero char, so
\* the test `if (oldGrid[...])` always takes the copying branch.
resize(g, w, h) ==
    LET minWidth == Min(w, g.width)
        minHeight == Min(h, g.height)
        oldGrid == g.grid
    IN [width |-> w, height |-> h,
        grid |-> [k \in 1..(w * h) |->
                    LET x == (k - 1) % w
                        y == (k - 1) \div w
                    IN IF y < minHeight /\ x < minWidth
                       THEN oldGrid[(g.width * y) + x + 1]
                       ELSE DEAD]]

\* Grid::resize(square_size): the loops run y below minWidth and x below
\* minHeight.  Cell (x, y) of the new buffer is written from old index
\* width*y + x, which can lie past the end of the old buffer.
ResizeSquareWritten(g, s, x, y) == y < Min(s, g.width) /\ x < Min(s, g.height)

ResizeSquareSource(g, x, y) == (g.width * y) + x

\* The cells of the new buffer whose source index is outside the old buffer.
ResizeSquareWild(g, s) ==
    {k \in 0..(s * s - 1) :
        /\ ResizeSquareWritten(g, s, k % s, k \div s)
        /\ ~InBuffer(g.grid, ResizeSquareSource(g, k % s, k \div s))}

resize_square(g, s) ==
    {[width |-> s, height |-> s,
      grid |-> [k \in 1..(s * s) |->
                  LET x == (k - 1) % s
                      y == (k - 1) \div s
                  IN IF ~ResizeSquareWritten(g, s, x, y) THEN DEAD
                     ELSE IF (k - 1) \in ResizeSquareWild(g, s) THEN f[k - 1]
                     ELSE g.grid[ResizeSquareSource(g, x, y) + 1]]]
     : f \in [ResizeSquareWild(g, s) -> Byte]}

\* ------------------------------------------------------------- Grid: merge
\* The body of the two loops of Grid::merge, from cell `position` of other
\* onwards (row-major order of other): [g, thrown].  Grid::set throws at the
\* first cell it is asked to write outside g; the cells written before stay.
RECURSIVE MergeLoop(_, _, _, _, _, _)
MergeLoop(g, other, mergeX, mergeY, alive_only, position) ==
    IF position >= other.width * other.height
    THEN [g |-> g, thrown |-> FALSE]
    ELSE LET x == mergeX + (position % other.width)
             y == mergeY + (position \div other.width)
             value == other.grid[position + 1]
         IN IF ~alive_only \/ value = ALIVE
            THEN LET r == set(g, x, y, value)
                 IN IF r.thrown
                    THEN r
                    ELSE MergeLoop(r.g, other, mergeX, mergeY, alive_only, position + 1)
            ELSE MergeLoop(g, other, mergeX, mergeY, alive_only, position + 1)

\* The opening test refusing an offset on the right or bottom edge as well.
MergeRejects_EdgeRefused(g, other, x0, y0) ==
    \/ other.width * other.height > g.width * g.height
    \/ x0 < 0
    \/ y0 < 0
    \/ x0 >= g.width
    \/ y0 >= g.height

\* The test that opens Grid::merge.
MergeRejects(g, other, x0, y0) ==
    \/ other.width * other.height > g.width * g.height
    \/ x0 < 0
    \/ y0 < 0
    \/ x0 > g.width
    \/ y0 > g.height

\* merge that never writes a DEAD cell, whatever alive_only is.
merge_AlwaysAliveOnly(g, other, x0, y0, alive_only) ==
    IF MergeRejects(g, other, x0, y0)
    THEN [g |-> g, thrown |-> TRUE]
    ELSE MergeLoop(g, other, x0, y0, TRUE, 0)

\* merge that ignores alive_only and overwrites every covered cell.
merge_IgnoresAliveOnly(g, other, x0, y0, alive_only) ==
    IF MergeRejects(g, other, x0, y0)
    THEN [g |-> g, thrown |-> TRUE]
    ELSE MergeLoop(g, other, x0, y0, FALSE, 0)

\* Grid::merge(other, x0, y0, alive_only): [g, thrown].
merge(g, other, x0, y0, alive_only) ==
    IF MergeRejects(g, other, x0, y0)
    THEN [g |-> g, thrown |-> TRUE]
    ELSE MergeLoop(g, other, x0, y0, alive_only, 0)

\* -------------------------------------------------------------- Grid: crop
\* The opening test with x1 and y1 refused already at the right and bottom
\* edge.
CropRejects_EdgeRefused(g, x0, y0, x1, y1) ==
    \/ x0 > g.width \/ x1 >= g.width
    \/ y0 > g.height \/ y1 >= g.height
    \/ x0 > x1 \/ y0 > y1

\* The test that opens Grid::crop (the arguments are unsigned).
CropRejects(g, x0, y0, x1, y1) ==
    \/ x0 > g.width \/ x1 > g.width
    \/ y0 > g.height \/ y1 > g.height
    \/ x0 > x1 \/ y0 > y1

\* The loops of Grid::crop from the k-th copied cell onwards; c is the new
\* buffer, newX and newY the running coordinates the code keeps.
RECURSIVE CropLoop(_, _, _, _, _, _, _, _)
CropLoop(g, x0, y0, newWidth, newHeight, k, c, pos) ==
    IF k >= newWidth * newHeight
    THEN c
    ELSE LET x == x0 + (k % newWidth)
             y == y0 + (k \div newWidth)
             newX == pos[1]
             newY == pos[2]
             written == [c EXCEPT ![newX + (newWidth * newY) + 1] = g.grid[x + (g.width * y) + 1]]
             nextX == IF newX = newWidth - 1 THEN 0 ELSE newX + 1
             nextY == IF (k % newWidth) = newWidth - 1 THEN newY + 1 ELSE newY
         IN CropLoop(g, x0, y0, newWidth, newHeight, k + 1, written, <<nextX, nextY>>)

\* crop that copies from the top left corner of the grid, whatever x0 and y0.
crop_FromOrigin(g, x0, y0, x1, y1) ==
    IF CropRejects(g, x0, y0, x1, y1)
    THEN [ret |-> GridDefault, thrown |-> TRUE]
    ELSE LET newWidth == x1 - x0
             newHeight == y1 - y0
         IN [ret |-> [width |-> newWidth, height |-> newHeight,
                      grid |-> CropLoop(g, 0, 0, newWidth, newHeight, 0,
                                        GridWH(newWidth, newHeight).grid, <<0, 0>>)],
             thrown |-> FALSE]

\* Grid::crop(x0, y0, x1, y1): [ret, thrown].
crop(g, x0, y0, x1, y1) ==
    IF CropRejects(g, x0, y0, x1, y1)
    THEN [ret |-> GridDefault, thrown |-> TRUE]
    ELSE LET newWidth == x1 - x0
             newHeight == y1 - y0
         IN [ret |-> [width |-> newWidth, height |-> newHeight,
                      grid |-> CropLoop(g, x0, y0, newWidth, newHeight, 0,
                                        GridWH(newWidth, newHeight).grid, <<0, 0>>)],
             thrown |-> FALSE]

\* ------------------------------------------------------------ Grid: rotate
\* rotation = std::abs(rotation % 4 + 4) % 4
Quarter(rotation) ==
    LET t == CRem(rotation, 4) + 4
    IN CRem(IF t < 0 THEN -t ELSE t, 4)

\* The source index read for cell (x, y) of the result.  The arithmetic is
\* unsigned: a value below zero wraps to one far past the end of the buffer,
\* so that an index is inside the buffer exactly when the value computed
\* here is.
RotateOffset(g, q, x, y) ==
    IF q = 1
    THEN IF g.width > g.height
         THEN (g.height * g.height - 1) - (x * g.width) + y
         ELSE IF g.width = g.height
              THEN (g.width * (g.width - 1)) - (x * g.width) + y
              ELSE (g.width * g.width) - (x * g.width) + y
    ELSE IF q = 2
         THEN (g.height * g.width - 1) - get_index(g, x, y)
         ELSE (g.width - 1 - y) + (x * g.width)

RotatedWidth(g, q) == IF q = 2 THEN g.width ELSE g.height

RotatedHeight(g, q) == IF q = 2 THEN g.height ELSE g.width

\* The cells of the result read from outside the source buffer.
RotateWild(g, q) ==
    IF q = 0 THEN {}
    ELSE {k \in 0..(g.width * g.height - 1) :
            ~InBuffer(g.grid, RotateOffset(g, q, k % RotatedWidth(g, q),
                                           k \div RotatedWidth(g, q)))}

\* Grid::rotate(rotation): the grids it can return.
rotate(g, rotation) ==
    LET q == Quarter(rotation)
        w == RotatedWidth(g, q)
        h == RotatedHeight(g, q)
    IN IF q = 0 THEN {g}
       ELSE {[width |-> w, height |-> h,
              grid |-> [k \in 1..(w * h) |->
                          IF (k - 1) \in RotateWild(g, q) THEN f[k - 1]
                          ELSE g.grid[RotateOffset(g, q, (k - 1) % w, (k - 1) \div w) + 1]]]
             : f \in [RotateWild(g, q) -> Byte]}

\* n successive calls rotate(rotation), each on the grid the previous one
\* returned: the set of [g, outcome] the sequence can end with.  A read
\* outside the buffer can end the program at the call that performs it.
RECURSIVE RotateTimes(_, _, _)
RotateTimes(g, rotation, n) ==
    IF n = 0
    THEN {[g |-> g, outcome |-> "ok"]}
    ELSE UNION {RotateTimes(r, rotation, n - 1) : r \in rotate(g, rotation)}
         \cup {[g |-> GridDefault, outcome |-> "fault"] : k \in RotateWild(g, Quarter(rotation))}

\* ------------------------------------------------------------------ World
\* World::World(), World(squaresize), World(width, height), World(Grid)
NewWorld == [currentGrid |-> GridSquare(0), nextGrid |-> GridSquare(0)]

WorldSquare(squaresize) ==
    [currentGrid |-> GridSquare(squaresize), nextGrid |-> GridSquare(squaresize)]

WorldWH(width, height) ==
    [currentGrid |-> GridWH(width, height), nextGrid |-> GridWH(width, height)]

WorldOf(initial_grid) ==
    [currentGrid |-> initial_grid,
     nextGrid |-> GridWH(initial_grid.width, initial_grid.height)]

get_width(w) == w.currentGrid.width

get_height(w) == w.currentGrid.height

get_state(w) == w.currentGrid

\* World::resize(square_size): the worlds it can leave (see resize_square).
World_resize_square(w, square_size) ==
    {[w EXCEPT !.currentGrid = g] : g \in resize_square(w.currentGrid, square_size)}

\* World::resize(width, height)
World_resize(w, width, height) ==
    [w EXCEPT !.currentGrid = resize(w.currentGrid, width, height)]

\* The wrap with a corner taken to the opposite edge on the x axis only.
ToroidalCell_CornerOneAxis(w, i, j) ==
    <<IF i < 0 THEN get_width(w) - 1 ELSE IF i >= get_width(w) THEN 0 ELSE i,
      IF i >= 0 /\ i < get_width(w)
      THEN (IF j < 0 THEN get_height(w) - 1 ELSE IF j >= get_height(w) THEN 0 ELSE j)
      ELSE (IF j < 0 THEN 0 ELSE IF j >= get_height(w) THEN get_height(w) - 1 ELSE j)>>

\* The coordinate count_neighbours reads for the neighbour (i, j) when
\* toroidal is true: the chain of else-if branches of the code.
ToroidalCell(w, i, j) ==
    IF i < 0
    THEN IF j < 0 THEN <<get_width(w) - 1, get_height(w) - 1>>
         ELSE IF j >= get_height(w) THEN <<get_width(w) - 1, 0>>
         ELSE <<get_width(w) - 1, j>>
    ELSE IF i >= get_width(w)
         THEN IF j < 0 THEN <<0, get_height(w) - 1>>
              ELSE IF j >= get_height(w) THEN <<0, 0>>
              ELSE <<0, j>>
         ELSE IF j < 0 THEN <<i, get_height(w) - 1>>
              ELSE IF j >= get_height(w) THEN <<i, 0>>
              ELSE <<i, j>>

\* count_neighbours with the centre of the 3x3 square counted too when
\* toroidal is false.
count_neighbours_CountsCentre(w, x, y, toroidal) ==
    Cardinality(
        {n \in ((x - 1)..(x + 1)) \X ((y - 1)..(y + 1)) :
            LET i == n[1]
                j == n[2]
            IN IF ~toroidal
               THEN /\ i >= 0 /\ i < get_width(w) /\ j >= 0 /\ j < get_height(w)
                    /\ get(get_state(w), i, j) = ALIVE
               ELSE /\ ~(i = x /\ j = y)
                    /\ get(get_state(w), ToroidalCell(w, i, j)[1],
                           ToroidalCell(w, i, j)[2]) = ALIVE})

\* World::count_neighbours(x, y, toroidal): each of the eight (i, j) visited
\* adds one when the cell read for it is ALIVE.
count_neighbours(w, x, y, toroidal) ==
    Cardinality(
        {n \in ((x - 1)..(x + 1)) \X ((y - 1)..(y + 1)) :
            LET i == n[1]
                j == n[2]
            IN /\ ~(i = x /\ j = y)
               /\ IF ~toroidal
                  THEN /\ i >= 0 /\ i < get_width(w) /\ j >= 0 /\ j < get_height(w)
                       /\ get(get_state(w), i, j) = ALIVE
                  ELSE LET c == ToroidalCell(w, i, j)
                       IN get(get_state(w), c[1], c[2]) = ALIVE})

\* The value World::step writes for a cell with value `cell` and `num` live
\* neighbours.
StepCell(cell, num) ==
    IF cell = ALIVE
    THEN IF num < 2 \/ num > 3 THEN DEAD ELSE ALIVE
    ELSE IF num = 3 THEN ALIVE ELSE DEAD

\* The loops of World::step from cell p of the current grid onwards (row by
\* row); next is nextGrid as written so far.  The loops write cell (x, y) of
\* next for every cell (x, y) of the current grid in turn; nextGrid.set
\* throws at the first cell that lies outside next, before the swap, and the
\* cells written until then stay written.
StepLoop(w, toroidal, p, next) ==
    LET cells == get_width(w) * get_height(w)
        refused == {q \in p..(cells - 1) :
                       OutOfRange(next, q % get_width(w), q \div get_width(w))}
        stop == IF refused = {} THEN cells
                ELSE CHOOSE q \in refused : \A o \in refused : q <= o
        written == [next EXCEPT !.grid =
                      [k \in 1..Len(next.grid) |->
                          LET x == (k - 1) % next.width
                              y == (k - 1) \div next.width
                              q == (get_width(w) * y) + x
                          IN IF x < get_width(w) /\ y < get_height(w) /\ p <= q /\ q < stop
                             THEN StepCell(get(get_state(w), x, y),
                                           count_neighbours(w, x, y, toroidal))
                             ELSE next.grid[k]]]
    IN IF refused = {}
       THEN [w |-> [currentGrid |-> written, nextGrid |-> w.currentGrid], thrown |-> FALSE]
       ELSE [w |-> [w EXCEPT !.nextGrid = written], thrown |-> TRUE]

\* World::step(toroidal): [w, thrown].
step(w, toroidal) == StepLoop(w, toroidal, 0, w.nextGrid)

\* advance that leaves its loop after the first step.
advance_StopsAfterOne(w, steps, toroidal) ==
    IF steps = 0
    THEN [w |-> w, thrown |-> FALSE]
    ELSE step(w, toroidal)

\* World::advance(steps, toroidal): [w, thrown]; a throwing step ends it.
RECURSIVE advance(_, _, _)
advance(w, steps, toroidal) ==
    IF steps = 0
    THEN [w |-> w, thrown |-> FALSE]
    ELSE LET r == step(w, toroidal)
         IN IF r.thrown THEN r ELSE advance(r.w, steps - 1, toroidal)

\* -------------------------------------------------------------------- Zoo
\* The glider mirrored left to right: it travels down and to the left.
glider_Mirrored ==
    set(set(set(set(set(GridWH(3, 3), 1, 0, ALIVE).g, 0, 1, ALIVE).g, 0, 2, ALIVE).g,
            1, 2, ALIVE).g, 2, 2, ALIVE).g

\* Zoo::glider()
glider ==
    set(set(set(set(set(GridWH(3, 3), 1, 0, ALIVE).g, 2, 1, ALIVE).g, 0, 2, ALIVE).g,
            1, 2, ALIVE).g, 2, 2, ALIVE).g

\* ------------------------------------------------------------- Zoo: ascii
\* A text file is the sequence of its characters.
NEWLINE == "\n"

Digits == <<"0", "1", "2", "3", "4", "5", "6", "7", "8", "9">>

IsDigit(c) == \E i \in 1..Len(Digits) : Digits[i] = c

DigitValue(c) == (CHOOSE i \in 1..Len(Digits) : Digits[i] = c) - 1

\* ostream << unsigned int: the decimal digits, most significant first.
RECURSIVE Decimal(_)
Decimal(n) ==
    IF n < Len(Digits)
    THEN <<Digits[n + 1]>>
    ELSE Decimal(n \div Len(Digits)) \o <<Digits[(n % Len(Digits)) + 1]>>

\* operator<<(ostream, Grid): a border line, one line "|cells|" for each row
\* with "#" for a cell equal to ALIVE and " " for any other, a border line.
operator_out(g) ==
    [k \in 1..((g.height + 2) * (g.width + 3)) |->
        LET j == (k - 1) \div (g.width + 3)
            i == (k - 1) % (g.width + 3)
        IN IF i = g.width + 2 THEN NEWLINE
           ELSE IF j = 0 \/ j = g.height + 1
                THEN (IF i = 0 \/ i = g.width + 1 THEN "+" ELSE "-")
                ELSE IF i = 0 \/ i = g.width + 1 THEN "|"
                     ELSE IF get(g, i - 1, j - 1) = ALIVE THEN "#" ELSE " "]

\* The character an iteration of the loop of save_ascii writes, if any.
SavedCharacter(c) == c \in {" ", "#", NEWLINE}

\* Zoo::save_ascii: the content of the file it writes.  The header, then the
\* characters of the rendering between its border lines that are a space, a
\* "#" or a newline.
save_ascii(g) ==
    LET s == operator_out(g)
    IN Decimal(g.width) \o <<" ">> \o Decimal(g.height) \o <<NEWLINE>>
       \o SelectSeq(SubSeq(s, g.width + 4, Len(s) - g.width - 3), SavedCharacter)

\* istream >> int on the content f from position pos: leading white space is
\* skipped, then an optional sign and the digits are read.  ok is FALSE when
\* no number is there; the value is then 0 and the stream has failed.
IsSpace(c) == c \in {" ", NEWLINE}

RECURSIVE SkipSpace(_, _)
SkipSpace(f, pos) ==
    IF pos <= Len(f) /\ IsSpace(f[pos]) THEN SkipSpace(f, pos + 1) ELSE pos

RECURSIVE ReadDigits(_, _, _)
ReadDigits(f, pos, acc) ==
    IF pos <= Len(f) /\ IsDigit(f[pos])
    THEN ReadDigits(f, pos + 1, (acc * Len(Digits)) + DigitValue(f[pos]))
    ELSE [value |-> acc, pos |-> pos]

ReadInt(f, pos) ==
    LET p == SkipSpace(f, pos)
        signed == p <= Len(f) /\ f[p] \in {"-", "+"}
        q == IF signed THEN p + 1 ELSE p
        d == ReadDigits(f, q, 0)
    IN IF d.pos = q
       THEN [value |-> 0, pos |-> q, ok |-> FALSE]
       ELSE [value |-> IF signed /\ f[p] = "-" THEN 0 - d.value ELSE d.value,
             pos |-> d.pos, ok |-> TRUE]

\* getline(file, line) from position pos: the characters up to the next
\* newline, which is consumed.
RECURSIVE LineEnd(_, _)
LineEnd(f, pos) ==
    IF pos <= Len(f) /\ f[pos] # NEWLINE THEN LineEnd(f, pos + 1) ELSE pos

\* The inner loop of load_ascii over the characters of a line from x on.
RECURSIVE LoadLine(_, _, _, _)
LoadLine(g, line, x, y) ==
    IF x >= Len(line)
    THEN [g |-> g, thrown |-> FALSE]
    ELSE LET c == line[x + 1]
             r == set(g, x, y, IF c = "#" THEN ALIVE ELSE DEAD)
         IN IF c \notin {"#", " "} \/ r.thrown
            THEN [g |-> g, thrown |-> TRUE]
            ELSE LoadLine(r.g, line, x + 1, y)

\* The while loop of load_ascii: getline fails at the end of the file; a
\* line of another length than the width is refused from row 1 on, and y
\* advances only past a line of the length of the width.
RECURSIVE LoadLines(_, _, _, _)
LoadLines(f, pos, g, y) ==
    IF pos > Len(f) \/ ~(y < g.height)
    THEN [g |-> g, thrown |-> FALSE]
    ELSE LET e == LineEnd(f, pos)
             line == SubSeq(f, pos, e - 1)
             r == LoadLine(g, line, 0, y)
         IN IF (Len(line) # g.width /\ y > 0) \/ r.thrown
            THEN [g |-> GridDefault, thrown |-> TRUE]
            ELSE LoadLines(f, e + 1, r.g, IF Len(line) = g.width THEN y + 1 ELSE y)

\* Zoo::load_ascii on a file of content f: the grid returned, or thrown.
\* After a failed read of the header no line is read.
load_ascii(f) ==
    LET w == ReadInt(f, 1)
        h == IF w.ok THEN ReadInt(f, w.pos) ELSE [value |-> 0, pos |-> w.pos, ok |-> FALSE]
    IN IF w.value < 0 \/ h.value < 0
       THEN [g |-> GridDefault, thrown |-> TRUE]
       ELSE IF ~h.ok
            THEN [g |-> GridWH(w.value, h.value), thrown |-> FALSE]
            ELSE LoadLines(f, h.pos, GridWH(w.value, h.value), 0)

\* ------------------------------------------------------------ Zoo: binary
\* A binary file is the sequence of its bytes.
\* The capacity of the std::bitset the two binary codecs use as scratch.
BitsetSize == 500

\* An unsigned int as the 4 bytes file.write stores, lowest first.
LittleEndian(n) ==
    <<n % 256, (n \div 256) % 256, (n \div 65536) % 256, (n \div 16777216) % 256>>

\* file.read into an unsigned int that was 0: the bytes the file still has
\* from position pos are stored, the others stay 0.
ByteAt(f, pos) == IF pos <= Len(f) THEN f[pos] ELSE 0

ReadUnsigned(f, pos) ==
    ByteAt(f, pos) + (256 * ByteAt(f, pos + 1)) + (65536 * ByteAt(f, pos + 2))
        + (16777216 * ByteAt(f, pos + 3))

\* (byte >> i) & 0x1u
BitOf(byte, i) == (byte \div (2 ^ i)) % 2

\* The number of bytes the loop of save_binary writes for a grid of `cells`
\* cells: one for each i = 0, 8, 16, ... below cells.
DataBytes(cells) == (cells + 7) \div 8

\* Zoo::save_binary: the files it can write.  The bitset holds bit i for
\* i below BitsetSize; bitset[i] with a larger i is outside the bitset, so
\* what is read there is any bit, or the access ends the program.  top is
\* the largest index at which the bitset is accessed (bitset[i + 7] of the
\* last byte), -1 if there is none.
save_binary(g) ==
    LET cells == g.width * g.height
        top == (8 * DataBytes(cells)) - 1
        wild == {i \in 0..top : i >= BitsetSize}
    IN {[file |-> LittleEndian(g.width) \o LittleEndian(g.height)
                  \o [b \in 1..DataBytes(cells) |->
                        LET bit(k) ==
                              LET i == (8 * (b - 1)) + k
                              IN IF i \in wild THEN (IF f[i] THEN 1 ELSE 0)
                                 ELSE IF i < cells /\ g.grid[i + 1] = ALIVE THEN 1
                                 ELSE 0
                        IN bit(0) * 1 + bit(1) * 2 + bit(2) * 4 + bit(3) * 8
                           + bit(4) * 16 + bit(5) * 32 + bit(6) * 64 + bit(7) * 128],
         outcome |-> "ok",
         top |-> top] : f \in [wild -> BOOLEAN]}
       \cup (IF wild = {} THEN {}
             ELSE {[file |-> <<>>, outcome |-> "fault", top |-> top]})

\* Zoo::load_binary on a file of content f: the grids it can return.  Every
\* byte after the 8 of the header is read, and each of its bits that is 1
\* sets bitset[index]; the file is refused if it has fewer bits than the
\* grid has cells.  top is the largest index at which the bitset is
\* accessed; after a write outside the bitset the program goes on or ends.
load_binary(f) ==
    LET width == ReadUnsigned(f, 1)
        height == ReadUnsigned(f, 5)
        cells == width * height
        index == 8 * (IF Len(f) > 8 THEN Len(f) - 8 ELSE 0)
        ones == {i \in 0..(index - 1) : BitOf(f[9 + (i \div 8)], i % 8) = 1}
        thrown == index < cells
        used == ones \cup (IF cells > 0 THEN {cells - 1} ELSE {})
        top == IF used = {} THEN -1 ELSE CHOOSE i \in used : \A o \in used : o <= i
        wild == {i \in 0..(cells - 1) : i >= BitsetSize}
    IN (IF thrown
        THEN {[g |-> GridDefault, outcome |-> "throw", top |-> top]}
        ELSE {[g |-> [width |-> width, height |-> height,
                      grid |-> [k \in 1..cells |->
                                  IF (k - 1) \in wild
                                  THEN (IF w[k - 1] THEN ALIVE ELSE DEAD)
                                  ELSE IF (k - 1) \in ones THEN ALIVE ELSE DEAD]],
                outcome |-> "ok",
                top |-> top] : w \in [wild -> BOOLEAN]})
       \cup (IF top < BitsetSize THEN {}
             ELSE {[g |-> GridDefault, outcome |-> "fault", top |-> top]})

\* =================================================================== state
\* grid  : the Grid object the grid operations act on
\* ret   : the Grid last returned by crop or rotate
\* world : the World object, [currentGrid, nextGrid]
\* last  : the call that has just returned: its name, arguments, the object
\*         before the call and how the call ended ("ok", "throw", or "fault"
\*         when a read outside a buffer ended the program); op = "idle" once
\*         the caller has taken the result
\* calls : the number of resize, step and advance calls made on world since
\*         it was constructed
\* file  : the content of the file the Zoo codecs write and read, a sequence
\*         of characters (ascii) or of bytes (binary)
VARIABLES grid, ret, world, last, calls, file

vars == <<grid, ret, world, last, calls, file>>

NoArgs == <<>>

Call(op, args, flag, other, pre, outcome) ==
    [op |-> op, args |-> args, flag |-> flag, other |-> other, pre |-> pre,
     outcome |-> outcome]

NoCall == Call("idle", NoArgs, FALSE, GridDefault, GridDefault, "ok")

Thrown(t) == IF t THEN "throw" ELSE "ok"

\* No call is in progress: the caller has taken the result of the last one.
\* No call is made after a fault.
Idle == last.op = "idle"

\* The grids handed to merge as `other`.
Others ==
    UNION {GridsOfSize(w, h) : <<w, h>> \in {d \in Dims \X Dims : d[1] * d[2] <= MaxOtherCells}}

\* One less than zero up to the largest dimension: merge takes signed offsets.
Offsets == (-1)..MaxDim

Turns == (-MaxTurns)..MaxTurns

\* ----------------------------------------------------------- Grid actions
NewGridDefault ==
    /\ Idle
    /\ grid' = GridDefault
    /\ last' = Call("Grid", NoArgs, FALSE, GridDefault, GridDefault, "ok")
    /\ UNCHANGED <<ret, world, calls, file>>

NewGridSquare ==
    /\ Idle
    /\ \E s \in Dims :
        /\ grid' = GridSquare(s)
        /\ last' = Call("Grid", <<s>>, FALSE, GridDefault, GridDefault, "ok")
    /\ UNCHANGED <<ret, world, calls, file>>

NewGridWH ==
    /\ Idle
    /\ \E w \in Dims, h \in Dims :
        /\ grid' = GridWH(w, h)
        /\ last' = Call("Grid", <<w, h>>, FALSE, GridDefault, GridDefault, "ok")
    /\ UNCHANGED <<ret, world, calls, file>>

GridSet ==
    /\ Idle
    /\ \E x \in Coords, y \in Coords, value \in Cell :
        LET r == set(grid, x, y, value)
        IN /\ grid' = r.g
           /\ last' = Call("set", <<x, y>>, value = ALIVE, GridDefault, grid, Thrown(r.thrown))
    /\ UNCHANGED <<ret, world, calls, file>>

\* Grid::get: the flag of the call records whether ALIVE was returned.
GridGet ==
    /\ Idle
    /\ \E x \in Coords, y \in Coords :
        LET r == Grid_get(grid, x, y)
        IN last' = Call("get", <<x, y>>, r.value = ALIVE, GridDefault, grid, Thrown(r.thrown))
    /\ UNCHANGED <<grid, ret, world, calls, file>>

\* A read through the const operator(): `Cell c = g(x, y)`.
GridAt ==
    /\ Idle
    /\ \E x \in Coords, y \in Coords :
        LET r == operator_call(grid, x, y)
        IN last' = Call("at", <<x, y>>, ~r.thrown /\ grid.grid[r.index + 1] = ALIVE,
                        GridDefault, grid, Thrown(r.thrown))
    /\ UNCHANGED <<grid, ret, world, calls, file>>

\* A write through the reference the non-const operator() returns:
\* `g(x, y) = value`.
GridAtAssign ==
    /\ Idle
    /\ \E x \in Coords, y \in Coords, value \in Cell :
        LET r == operator_call(grid, x, y)
        IN /\ grid' = IF r.thrown THEN grid ELSE [grid EXCEPT !.grid[r.index + 1] = value]
           /\ last' = Call("at_assign", <<x, y>>, value = ALIVE, GridDefault, grid, Thrown(r.thrown))
    /\ UNCHANGED <<ret, world, calls, file>>

GridResize ==
    /\ Idle
    /\ \E w \in Dims, h \in Dims :
        /\ grid' = resize(grid, w, h)
        /\ last' = Call("resize", <<w, h>>, FALSE, GridDefault, grid, "ok")
    /\ UNCHANGED <<ret, world, calls, file>>

GridResizeSquare ==
    /\ Idle
    /\ \E s \in Dims :
        \E o \in {[g |-> r, outcome |-> "ok"] : r \in resize_square(grid, s)}
                 \cup {[g |-> grid, outcome |-> "fault"] : k \in ResizeSquareWild(grid, s)} :
            /\ grid' = o.g
            /\ last' = Call("resize_square", <<s>>, FALSE, GridDefault, grid, o.outcome)
    /\ UNCHANGED <<ret, world, calls, file>>

GridMerge ==
    /\ Idle
    /\ \E other \in Others, x0 \in Offsets, y0 \in Offsets, alive_only \in BOOLEAN :
        LET r == merge(grid, other, x0, y0, alive_only)
        IN /\ grid' = r.g
           /\ last' = Call("merge", <<x0, y0>>, alive_only, other, grid, Thrown(r.thrown))
    /\ UNCHANGED <<ret, world, calls, file>>

GridCrop ==
    /\ Idle
    /\ \E x0 \in Coords, y0 \in Coords, x1 \in Coords, y1 \in Coords :
        LET r == crop(grid, x0, y0, x1, y1)
        IN /\ ret' = r.ret
           /\ last' = Call("crop", <<x0, y0, x1, y1>>, FALSE, GridDefault, grid, Thrown(r.thrown))
    /\ UNCHANGED <<grid, world, calls, file>>

\* A box cropped from the grid and merged back where it came from, with
\* alive_only left at its default:
\*     Grid c = g.crop(x0, y0, x1, y1);  g.merge(c, x0, y0);
\* The call records the cropped grid as `other`; a throwing crop ends the
\* sequence before merge is called.
GridCropMerge ==
    /\ Idle
    /\ \E x0 \in Coords, y0 \in Coords, x1 \in Coords, y1 \in Coords :
        LET c == crop(grid, x0, y0, x1, y1)
            r == IF c.thrown THEN [g |-> grid, thrown |-> TRUE]
                 ELSE merge(grid, c.ret, x0, y0, FALSE)
        IN /\ grid' = r.g
           /\ last' = Call("crop_merge", <<x0, y0, x1, y1>>, FALSE, c.ret, grid, Thrown(r.thrown))
    /\ UNCHANGED <<ret, world, calls, file>>

GridRotate ==
    /\ Idle
    /\ \E rotation \in Turns :
        \E o \in {[g |-> r, outcome |-> "ok"] : r \in rotate(grid, rotation)}
                 \cup {[g |-> GridDefault, outcome |-> "fault"] : k \in RotateWild(grid, Quarter(rotation))} :
            /\ ret' = o.g
            /\ last' = Call("rotate", <<rotation>>, FALSE, GridDefault, grid, o.outcome)
    /\ UNCHANGED <<grid, world, calls, file>>

\* The caller takes the result of the call that returned or threw.
Return ==
    /\ ~Idle
    /\ last.outcome # "fault"
    /\ last' = NoCall
    /\ ret' = GridDefault
    /\ UNCHANGED <<grid, world, calls, file>>

InitGrid ==
    /\ grid = GridDefault
    /\ ret = GridDefault
    /\ world = NewWorld
    /\ last = NoCall
    /\ calls = 0
    /\ file = <<>>

NextGrid ==
    \/ NewGridDefault
    \/ NewGridSquare
    \/ NewGridWH
    \/ GridSet
    \/ GridGet
    \/ GridAt
    \/ GridAtAssign
    \/ GridResize
    \/ GridResizeSquare
    \/ GridMerge
    \/ GridCrop
    \/ GridCropMerge
    \/ GridRotate
    \/ Return

\* The Grid object under every sequence of its operations.
SpecGrid == InitGrid /\ [][NextGrid]_vars

\* --------------------------------------------------------- rotate alone
RotateDims == 0..MaxRotateDim

\* g.rotate(r).rotate(r).rotate(r).rotate(r)
GridRotateFour ==
    /\ Idle
    /\ \E rotation \in Turns :
        \E o \in RotateTimes(grid, rotation, 4) :
            /\ ret' = o.g
            /\ last' = Call("rotate_four", <<rotation>>, FALSE, GridDefault, grid, o.outcome)
    /\ UNCHANGED <<grid, world, calls, file>>

\* rotate is called on a grid of any size and content.
InitRotate ==
    /\ \E w \in RotateDims, h \in RotateDims : grid \in GridsOfSize(w, h)
    /\ ret = GridDefault
    /\ world = NewWorld
    /\ last = NoCall
    /\ calls = 0
    /\ file = <<>>

NextRotate ==
    \/ GridRotate
    \/ GridRotateFour
    \/ Return

\* rotate and sequences of rotate on a Grid of any content.
SpecRotate == InitRotate /\ [][NextRotate]_vars

\* ---------------------------------------------------------- World actions
\* A constructor runs before any other call on the object.
\* The grids handed to World::World(Grid).
InitialGrids == UNION {StoredGridsOfSize(d[1], d[2]) : d \in Dims \X Dims}

StepCounts == 0..MaxSteps

NewWorldDefault ==
    /\ Idle
    /\ calls = 0
    /\ world' = NewWorld
    /\ last' = Call("World", NoArgs, FALSE, GridDefault, NewWorld, "ok")
    /\ calls' = 0
    /\ UNCHANGED <<grid, ret, file>>

NewWorldSquare ==
    /\ Idle
    /\ calls = 0
    /\ \E squaresize \in Dims :
        /\ world' = WorldSquare(squaresize)
        /\ last' = Call("World", <<squaresize>>, FALSE, GridDefault, NewWorld, "ok")
    /\ calls' = 0
    /\ UNCHANGED <<grid, ret, file>>

NewWorldWH ==
    /\ Idle
    /\ calls = 0
    /\ \E width \in Dims, height \in Dims :
        /\ world' = WorldWH(width, height)
        /\ last' = Call("World", <<width, height>>, FALSE, GridDefault, NewWorld, "ok")
    /\ calls' = 0
    /\ UNCHANGED <<grid, ret, file>>

NewWorldOf ==
    /\ Idle
    /\ calls = 0
    /\ \E initial_grid \in InitialGrids :
        /\ world' = WorldOf(initial_grid)
        /\ last' = Call("World", NoArgs, TRUE, initial_grid, NewWorld, "ok")
    /\ calls' = 0
    /\ UNCHANGED <<grid, ret, file>>

WorldResizeSquare ==
    /\ Idle
    /\ calls < MaxCalls
    /\ \E square_size \in Dims :
        \E o \in {[w |-> r, outcome |-> "ok"] : r \in World_resize_square(world, square_size)}
                 \cup {[w |-> world, outcome |-> "fault"]
                       : k \in ResizeSquareWild(world.currentGrid, square_size)} :
            /\ world' = o.w
            /\ last' = Call("resize_square", <<square_size>>, FALSE, GridDefault, world, o.outcome)
    /\ calls' = calls + 1
    /\ UNCHANGED <<grid, ret, file>>

WorldResize ==
    /\ Idle
    /\ calls < MaxCalls
    /\ \E width \in Dims, height \in Dims :
        /\ world' = World_resize(world, width, height)
        /\ last' = Call("resize", <<width, height>>, FALSE, GridDefault, world, "ok")
    /\ calls' = calls + 1
    /\ UNCHANGED <<grid, ret, file>>

WorldStep ==
    /\ Idle
    /\ calls < MaxCalls
    /\ \E toroidal \in BOOLEAN :
        LET r == step(world, toroidal)
        IN /\ world' = r.w
           /\ last' = Call("step", NoArgs, toroidal, GridDefault, world, Thrown(r.thrown))
    /\ calls' = calls + 1
    /\ UNCHANGED <<grid, ret, file>>

WorldAdvance ==
    /\ Idle
    /\ calls < MaxCalls
    /\ \E steps \in StepCounts, toroidal \in BOOLEAN :
        LET r == advance(world, steps, toroidal)
        IN /\ world' = r.w
           /\ last' = Call("advance", <<steps>>, toroidal, GridDefault, world, Thrown(r.thrown))
    /\ calls' = calls + 1
    /\ UNCHANGED <<grid, ret, file>>

InitWorld == InitGrid

\* ------------------------------------------------------ a glider in a World
\* The offsets at which a glider fits into the World.
GliderOffsets == 0..(GliderWorldSide - glider.width)

GliderStepCounts == 0..MaxGliderSteps

\* Grid g(side, side); g.merge(Zoo::glider(), x0, y0); World w(g);
NewGliderWorld ==
    /\ Idle
    /\ calls = 0
    /\ \E x0 \in GliderOffsets, y0 \in GliderOffsets :
        LET r == merge(GridWH(GliderWorldSide, GliderWorldSide), glider, x0, y0, FALSE)
        IN /\ world' = WorldOf(r.g)
           /\ last' = Call("World", <<x0, y0>>, TRUE, r.g, NewWorld, Thrown(r.thrown))
    /\ calls' = 0
    /\ UNCHANGED <<grid, ret, file>>

\* World::advance, called once on the World holding the glider.
GliderAdvance ==
    /\ Idle
    /\ calls = 0
    /\ world.currentGrid.width = GliderWorldSide
    /\ \E steps \in GliderStepCounts, toroidal \in BOOLEAN :
        LET r == advance(world, steps, toroidal)
        IN /\ world' = r.w
           /\ last' = Call("advance", <<steps>>, toroidal, GridDefault, world, Thrown(r.thrown))
    /\ calls' = calls + 1
    /\ UNCHANGED <<grid, ret, file>>

NextGlider ==
    \/ NewGliderWorld
    \/ GliderAdvance
    \/ Return

\* A World built around a glider and advanced.
SpecGlider == InitWorld /\ [][NextGlider]_vars

NextWorld ==
    \/ NewWorldDefault
    \/ NewWorldSquare
    \/ NewWorldWH
    \/ NewWorldOf
    \/ WorldResizeSquare
    \/ WorldResize
    \/ WorldStep
    \/ WorldAdvance
    \/ Return

\* The World object under every sequence of its operations.
SpecWorld == InitWorld /\ [][NextWorld]_vars

\* ------------------------------------------------------------ Zoo actions
\* No file: opening it for reading fails.
NoFile == <<>>

\* The lines a text file written by another program can hold.
Lines == UNION {[1..n -> {"#", " "}] : n \in 0..MaxLineLen}

\* n lines, each ended by a newline.
RECURSIVE RowTexts(_)
RowTexts(n) ==
    IF n = 0 THEN {<<>>}
    ELSE {l \o <<NEWLINE>> \o r : l \in Lines, r \in RowTexts(n - 1)}

\* The text files with the header of a w by h grid and h lines after it.
AsciiFiles(w, h) ==
    {Decimal(w) \o <<" ">> \o Decimal(h) \o <<NEWLINE>> \o r : r \in RowTexts(h)}

SaveAscii ==
    /\ Idle
    /\ file' = save_ascii(grid)
    /\ last' = Call("save_ascii", NoArgs, FALSE, GridDefault, grid, "ok")
    /\ UNCHANGED <<grid, ret, world, calls>>

LoadAscii ==
    /\ Idle
    /\ LET r == IF file = NoFile
                THEN [g |-> GridDefault, thrown |-> TRUE]
                ELSE load_ascii(file)
       IN /\ ret' = IF r.thrown THEN ret ELSE r.g
          /\ last' = Call("load_ascii", NoArgs, FALSE, GridDefault, grid, Thrown(r.thrown))
    /\ UNCHANGED <<grid, world, calls, file>>

\* A program holds any grid and no file, or finds a text file.
InitAscii ==
    /\ ret = GridDefault
    /\ world = NewWorld
    /\ last = NoCall
    /\ calls = 0
    /\ \/ /\ \E w \in Dims, h \in Dims : grid \in StoredGridsOfSize(w, h)
          /\ file = NoFile
       \/ /\ grid = GridDefault
          /\ \E w \in Dims, h \in Dims : file \in AsciiFiles(w, h)

NextAscii ==
    \/ SaveAscii
    \/ LoadAscii
    \/ Return

SpecAscii == InitAscii /\ [][NextAscii]_vars

\* The grids about as large as the bitset of the binary codecs: one row of
\* up to MaxUnder cells fewer and up to MaxOver cells more than BitsetSize,
\* all DEAD or all ALIVE.
LongGrids ==
    {[width |-> n, height |-> 1, grid |-> [k \in 1..n |-> v]] :
        n \in (BitsetSize - MaxUnder)..(BitsetSize + MaxOver), v \in Cell}

\* The binary files another program can have written for a w by h grid: a
\* header cut short, a header with a few bytes of data, or with about as
\* many bytes of data as the bitset has bits.
BinaryFiles(w, h) ==
    LET header == LittleEndian(w) \o LittleEndian(h)
    IN {SubSeq(header, 1, n) : n \in 1..Len(header)}
       \cup {header \o d : d \in UNION {[1..n -> {0, 1, 128, 255}] : n \in 0..MaxDataBytes}}
       \cup {header \o [k \in 1..n |-> v] :
                n \in DataBytes(BitsetSize)..(DataBytes(BitsetSize) + MaxOver),
                v \in {0, 255}}

SaveBinary ==
    /\ Idle
    /\ \E r \in save_binary(grid) :
        /\ file' = IF r.outcome = "ok" THEN r.file ELSE file
        /\ last' = Call("save_binary", <<r.top>>, FALSE, GridDefault, grid, r.outcome)
    /\ UNCHANGED <<grid, ret, world, calls>>

LoadBinary ==
    /\ Idle
    /\ \E r \in IF file = NoFile
                THEN {[g |-> GridDefault, outcome |-> "throw", top |-> -1]}
                ELSE load_binary(file) :
        /\ ret' = IF r.outcome = "ok" THEN r.g ELSE ret
        /\ last' = Call("load_binary", <<r.top>>, FALSE, GridDefault, grid, r.outcome)
    /\ UNCHANGED <<grid, world, calls, file>>

\* A program holds any grid and no file, or finds a binary file.
InitBinary ==
    /\ ret = GridDefault
    /\ world = NewWorld
    /\ last = NoCall
    /\ calls = 0
    /\ \/ /\ \/ \E w \in Dims, h \in Dims : grid \in StoredGridsOfSize(w, h)
             \/ grid \in LongGrids
          /\ file = NoFile
       \/ /\ grid = GridDefault
          /\ \E w \in Dims, h \in Dims : file \in BinaryFiles(w, h)

NextBinary ==
    \/ SaveBinary
    \/ LoadBinary
    \/ Return

SpecBinary == InitBinary /\ [][NextBinary]_vars

\* ---------------------------------------------------- count_neighbours alone
\* The worlds count_neighbours is applied to: every current grid of up to
\* MaxNeighbourDim columns and rows and MaxNeighbourCells cells.
NeighbourDims ==
    {d \in (1..MaxNeighbourDim) \X (1..MaxNeighbourDim) : d[1] * d[2] <= MaxNeighbourCells}

\* step calls count_neighbours(x, y, toroidal) for each cell of the current
\* grid; the call reads the world and returns the count.
CountNeighbours ==
    /\ Idle
    /\ \E x \in 0..(get_width(world) - 1), y \in 0..(get_height(world) - 1),
          toroidal \in BOOLEAN :
        last' = Call("count_neighbours",
                     <<x, y, count_neighbours(world, x, y, toroidal)>>,
                     toroidal, GridDefault, world, "ok")
    /\ UNCHANGED <<grid, ret, world, calls, file>>

InitNeighbours ==
    /\ grid = GridDefault
    /\ ret = GridDefault
    /\ \E d \in NeighbourDims : \E g \in StoredGridsOfSize(d[1], d[2]) : world = WorldOf(g)
    /\ last = NoCall
    /\ calls = 0
    /\ file = NoFile

NextNeighbours ==
    \/ CountNeighbours
    \/ Return

SpecNeighbours == InitNeighbours /\ [][NextNeighbours]_vars

\* ================================================================== claims
SameSize(w) ==
    /\ w.currentGrid.width = w.nextGrid.width
    /\ w.currentGrid.height = w.nextGrid.height

\* The cells of a grid, as coordinates.
Cells(g) == (0..(g.width - 1)) \X (0..(g.height - 1))

\* C1: for a World whose current and next grids have equal dimensions, after
\* step(toroidal) every cell of the new current grid is ALIVE exactly when
\* the old cell was ALIVE with 2 or 3 live neighbours or DEAD with 3, the
\* neighbours counted on the old current grid; the new current grid has the
\* old dimensions and owes nothing to what next held before.
C1_StepRule ==
    (last.op = "step" /\ SameSize(last.pre)) =>
        /\ last.outcome = "ok"
        /\ world.currentGrid.width = last.pre.currentGrid.width
        /\ world.currentGrid.height = last.pre.currentGrid.height
        /\ Len(world.currentGrid.grid) = Len(last.pre.currentGrid.grid)
        /\ \A c \in Cells(last.pre.currentGrid) :
            LET old == get(last.pre.currentGrid, c[1], c[2])
                n == count_neighbours(last.pre, c[1], c[2], last.flag)
            IN (get(world.currentGrid, c[1], c[2]) = ALIVE)
                <=> ((old = ALIVE /\ n \in {2, 3}) \/ (old = DEAD /\ n = 3))

\* C2: whenever a public operation of World has returned, the current grid
\* and the next grid have equal width and equal height.
C2_EqualDimensions == SameSize(world)

\* C3: in every reachable World step(toroidal) completes without raising an
\* out-of-bounds error.
C3_StepNeverThrows == (last.op = "step") => (last.outcome = "ok")

\* C4: in every Grid reached by constructors, set, both resize overloads and
\* merge, and in every Grid returned by crop or rotate, the length of the
\* cell buffer equals width * height.
C4_BufferLength ==
    /\ Len(grid.grid) = grid.width * grid.height
    /\ Len(ret.grid) = ret.width * ret.height

\* A resize has changed the number of cells of a grid to a non-zero number.
C4_Witness ==
    /\ last.op \in {"resize", "resize_square"} /\ last.outcome = "ok"
    /\ grid.width * grid.height > 0
    /\ grid.width * grid.height # last.pre.width * last.pre.height

\* C5: after resize(w, h) on a W x H grid the grid is w x h, and cell (x, y)
\* has the value it had before when x < W and y < H and is DEAD otherwise.
C5_ResizeKeepsOverlap ==
    (last.op = "resize") =>
        /\ last.outcome = "ok"
        /\ grid.width = last.args[1]
        /\ grid.height = last.args[2]
        /\ \A c \in Cells(grid) :
            get(grid, c[1], c[2]) =
                IF c[1] < last.pre.width /\ c[2] < last.pre.height
                THEN get(last.pre, c[1], c[2])
                ELSE DEAD

\* A resize that changes the width, keeps a live cell and adds a cell.
C5_Witness ==
    /\ last.op = "resize"
    /\ grid.width # last.pre.width
    /\ \E c \in Cells(grid) :
        c[1] < last.pre.width /\ c[2] < last.pre.height /\ get(grid, c[1], c[2]) = ALIVE
    /\ \E c \in Cells(grid) : c[1] >= last.pre.width \/ c[2] >= last.pre.height

\* C6: resize(s) on any W x H grid, square or not, yields an s x s grid in
\* which cell (x, y) with x < min(W, s) and y < min(H, s) keeps its value and
\* every other cell is DEAD, the result of resize(s, s).
C6_ResizeSquareKeepsOverlap ==
    (last.op = "resize_square") =>
        /\ last.outcome = "ok"
        /\ grid.width = last.args[1]
        /\ grid.height = last.args[1]
        /\ \A c \in Cells(grid) :
            get(grid, c[1], c[2]) =
                IF c[1] < Min(last.pre.width, last.args[1]) /\ c[2] < Min(last.pre.height, last.args[1])
                THEN get(last.pre, c[1], c[2])
                ELSE DEAD

\* other placed at (x0, y0) lies inside g.
Fits(g, other, x0, y0) ==
    /\ x0 >= 0
    /\ y0 >= 0
    /\ x0 + other.width <= g.width
    /\ y0 + other.height <= g.height

\* Cell c of g is covered by other placed at (x0, y0).
Covered(other, x0, y0, c) ==
    /\ x0 <= c[1] /\ c[1] < x0 + other.width
    /\ y0 <= c[2] /\ c[2] < y0 + other.height

\* C7: merge raises an error whenever x0 < 0, y0 < 0, x0 + other.width >
\* width or y0 + other.height > height, for either value of alive_only and
\* whatever the cells of other are.
C7_MergeRejectsOverhang ==
    (last.op = "merge" /\ ~Fits(last.pre, last.other, last.args[1], last.args[2]))
        => (last.outcome = "throw")

\* C8: whenever merge raises an error, the cells and dimensions of the
\* receiving grid are what they were before the call.
C8_FailedMergeChangesNothing ==
    (last.op = "merge" /\ last.outcome = "throw") => (grid = last.pre)

\* C9: when other placed at (x0, y0) fits inside self, merge in default mode
\* succeeds; every covered cell then has the value of the cell of other
\* placed on it, every other cell and the dimensions are unchanged.
C9_MergeOverwrites ==
    (last.op = "merge" /\ ~last.flag /\ Fits(last.pre, last.other, last.args[1], last.args[2])) =>
        /\ last.outcome = "ok"
        /\ grid.width = last.pre.width
        /\ grid.height = last.pre.height
        /\ Len(grid.grid) = Len(last.pre.grid)
        /\ \A c \in Cells(grid) :
            get(grid, c[1], c[2]) =
                IF Covered(last.other, last.args[1], last.args[2], c)
                THEN get(last.other, c[1] - last.args[1], c[2] - last.args[2])
                ELSE get(last.pre, c[1], c[2])

\* A default merge that fits, turns a live cell DEAD and leaves a live cell
\* outside the covered rectangle.
C9_Witness ==
    /\ last.op = "merge" /\ ~last.flag /\ last.outcome = "ok"
    /\ Fits(last.pre, last.other, last.args[1], last.args[2])
    /\ \E c \in Cells(grid) :
        /\ Covered(last.other, last.args[1], last.args[2], c)
        /\ get(last.pre, c[1], c[2]) = ALIVE
        /\ get(grid, c[1], c[2]) = DEAD
    /\ \E c \in Cells(grid) :
        /\ ~Covered(last.other, last.args[1], last.args[2], c)
        /\ get(grid, c[1], c[2]) = ALIVE

\* C10: after a successful merge with alive_only = true every covered cell
\* of self is ALIVE exactly when it was ALIVE before or the cell of other
\* placed on it is ALIVE; no cell goes from ALIVE to DEAD, and the cells
\* outside the covered rectangle and the dimensions are unchanged.
C10_MergeAliveOnly ==
    (last.op = "merge" /\ last.flag /\ last.outcome = "ok") =>
        /\ grid.width = last.pre.width
        /\ grid.height = last.pre.height
        /\ Len(grid.grid) = Len(last.pre.grid)
        /\ \A c \in Cells(grid) :
            /\ Covered(last.other, last.args[1], last.args[2], c) =>
                ((get(grid, c[1], c[2]) = ALIVE) <=>
                    \/ get(last.pre, c[1], c[2]) = ALIVE
                    \/ get(last.other, c[1] - last.args[1], c[2] - last.args[2]) = ALIVE)
            /\ ~Covered(last.other, last.args[1], last.args[2], c) =>
                (get(grid, c[1], c[2]) = get(last.pre, c[1], c[2]))
            /\ (get(last.pre, c[1], c[2]) = ALIVE) => (get(grid, c[1], c[2]) = ALIVE)

\* A successful alive_only merge that brings a DEAD cell to life and places
\* a DEAD cell of other on a live cell.
C10_Witness ==
    /\ last.op = "merge" /\ last.flag /\ last.outcome = "ok"
    /\ \E c \in Cells(grid) :
        /\ Covered(last.other, last.args[1], last.args[2], c)
        /\ get(last.pre, c[1], c[2]) = DEAD
        /\ get(grid, c[1], c[2]) = ALIVE
    /\ \E c \in Cells(grid) :
        /\ Covered(last.other, last.args[1], last.args[2], c)
        /\ get(last.pre, c[1], c[2]) = ALIVE
        /\ get(last.other, c[1] - last.args[1], c[2] - last.args[2]) = DEAD

\* The box handed to crop lies inside g and has no negative size.
ValidBox(g, x0, y0, x1, y1) ==
    /\ x0 <= x1 /\ x1 <= g.width
    /\ y0 <= y1 /\ y1 <= g.height

\* C11: for x0 <= x1 <= width and y0 <= y1 <= height, crop(x0, y0, x1, y1)
\* returns a grid of width x1 - x0 and height y1 - y0 whose cell (i, j) is
\* cell (x0 + i, y0 + j) of the source, zero-sized results included, and
\* leaves the source grid unchanged.
C11_CropCopiesBox ==
    (last.op = "crop" /\ ValidBox(last.pre, last.args[1], last.args[2], last.args[3], last.args[4])) =>
        /\ last.outcome = "ok"
        /\ ret.width = last.args[3] - last.args[1]
        /\ ret.height = last.args[4] - last.args[2]
        /\ Len(ret.grid) = ret.width * ret.height
        /\ \A c \in Cells(ret) :
            get(ret, c[1], c[2]) = get(last.pre, last.args[1] + c[1], last.args[2] + c[2])
        /\ grid = last.pre

\* A crop away from the top left corner that returns a live cell which is
\* not the cell at the same place counted from the corner.
C11_Witness ==
    /\ last.op = "crop" /\ last.outcome = "ok"
    /\ last.args[1] + last.args[2] > 0
    /\ \E c \in Cells(ret) :
        /\ get(ret, c[1], c[2]) = ALIVE
        /\ get(last.pre, c[1], c[2]) = DEAD

\* C12: crop(x0, y0, x1, y1) raises an error exactly when x0 > x1, y0 > y1,
\* x0 > width, x1 > width, y0 > height or y1 > height, and returns a grid in
\* every other case.
C12_CropRejectsExactly ==
    (last.op = "crop") =>
        ((last.outcome = "throw")
            <=> ~ValidBox(last.pre, last.args[1], last.args[2], last.args[3], last.args[4]))
        /\ last.outcome \in {"ok", "throw"}

\* A crop refused only because x1 lies past the right edge, on a grid with
\* cells.
C12_Witness ==
    /\ last.op = "crop" /\ last.outcome = "throw"
    /\ last.pre.width * last.pre.height > 0
    /\ last.args[1] <= last.args[3]
    /\ last.args[2] <= last.args[4]
    /\ last.args[4] <= last.pre.height
    /\ last.args[3] > last.pre.width

\* C16: get, set and both operator() accessors raise an error exactly when
\* x >= width or y >= height and succeed otherwise; a failing set leaves the
\* cells and dimensions of the grid unchanged.
C16_AccessorsRejectExactly ==
    (last.op \in {"get", "set", "at", "at_assign"}) =>
        /\ (last.outcome = "throw")
            <=> (last.args[1] >= last.pre.width \/ last.args[2] >= last.pre.height)
        /\ last.outcome \in {"ok", "throw"}
        /\ (last.outcome = "throw") => (grid = last.pre)

\* A set refused at x = width, on a row that exists, with ALIVE to write.
C16_Witness ==
    /\ last.op = "set" /\ last.outcome = "throw" /\ last.flag
    /\ last.args[1] = last.pre.width
    /\ last.args[2] < last.pre.height
    /\ grid = last.pre

\* C17: after set(x, y, v) with (x, y) in range, get(x, y) returns v, every
\* other cell has the value it had before, and width and height are
\* unchanged.
C17_SetThenGet ==
    (last.op = "set" /\ last.args[1] < last.pre.width /\ last.args[2] < last.pre.height) =>
        /\ last.outcome = "ok"
        /\ Grid_get(grid, last.args[1], last.args[2])
            = [value |-> IF last.flag THEN ALIVE ELSE DEAD, thrown |-> FALSE]
        /\ grid.width = last.pre.width
        /\ grid.height = last.pre.height
        /\ Len(grid.grid) = Len(last.pre.grid)
        /\ \A c \in Cells(grid) :
            (c # <<last.args[1], last.args[2]>>) =>
                (get(grid, c[1], c[2]) = get(last.pre, c[1], c[2]))

\* A set that changes a cell other than the first while the first cell is,
\* and stays, ALIVE.
C17_Witness ==
    /\ last.op = "set" /\ last.outcome = "ok"
    /\ last.args[1] + last.args[2] > 0
    /\ grid # last.pre
    /\ get(grid, 0, 0) = ALIVE

\* C18: for every grid g and every valid crop box (empty boxes and boxes
\* touching the right or bottom edge included), merging g.crop(x0, y0, x1, y1)
\* into a copy of g at (x0, y0) in default mode succeeds and leaves the copy
\* equal to g in every cell.
C18_CropMergeRestores ==
    (last.op = "crop_merge"
        /\ ValidBox(last.pre, last.args[1], last.args[2], last.args[3], last.args[4])) =>
        /\ last.outcome = "ok"
        /\ grid = last.pre

\* A box with cells, both ALIVE and DEAD, that touches the right and bottom
\* edge and does not start at the corner, merged back with success.
C18_Witness ==
    /\ last.op = "crop_merge" /\ last.outcome = "ok"
    /\ last.args[1] + last.args[2] > 0
    /\ last.args[3] = last.pre.width
    /\ last.args[4] = last.pre.height
    /\ \E c \in Cells(last.other) : get(last.other, c[1], c[2]) = ALIVE
    /\ \E c \in Cells(last.other) : get(last.other, c[1], c[2]) = DEAD

\* The number of ALIVE cells of a grid.
AliveCount(g) == Cardinality({k \in 1..Len(g.grid) : g.grid[k] = ALIVE})

\* The source index read for the k-th cell (row by row) of the grid that
\* rotate(rotation) returns for g.
RotateSource(g, rotation, k) ==
    IF Quarter(rotation) = 0 THEN k
    ELSE RotateOffset(g, Quarter(rotation),
                      k % RotatedWidth(g, Quarter(rotation)),
                      k \div RotatedWidth(g, Quarter(rotation)))

\* C13: for every W x H grid and every integer turns, rotate(turns) returns
\* a grid of H x W cells when turns is odd and of W x H cells when turns is
\* even; each cell of the result is read from an in-range source cell, no
\* two from the same one, so that every source cell appears exactly once and
\* the number of ALIVE cells is preserved.
C13_RotatePermutes ==
    (last.op = "rotate") =>
        /\ last.outcome = "ok"
        /\ ret.width = (IF last.args[1] % 2 = 1 THEN last.pre.height ELSE last.pre.width)
        /\ ret.height = (IF last.args[1] % 2 = 1 THEN last.pre.width ELSE last.pre.height)
        /\ Len(ret.grid) = Len(last.pre.grid)
        /\ \A k \in 0..(Len(last.pre.grid) - 1) :
            /\ InBuffer(last.pre.grid, RotateSource(last.pre, last.args[1], k))
            /\ \A j \in 0..(Len(last.pre.grid) - 1) :
                (RotateSource(last.pre, last.args[1], j) = RotateSource(last.pre, last.args[1], k))
                    => (j = k)
        /\ AliveCount(ret) = AliveCount(last.pre)

\* C14: for every W x H grid g, square or not,
\* g.rotate(1).rotate(1).rotate(1).rotate(1) has the width, the height and
\* the value in every cell of g.
C14_FourQuarterTurns ==
    (last.op = "rotate_four" /\ last.args[1] = 1) =>
        /\ last.outcome = "ok"
        /\ ret = last.pre

\* C15: for every grid and every integer k, rotate(k) and rotate(k + 4)
\* return grids with identical dimensions and cells, and rotate(k) for k a
\* multiple of 4 returns a grid identical to the original.
C15_RotatePeriodFour ==
    (last.op = "rotate") =>
        /\ last.outcome = "ok"
        /\ rotate(last.pre, last.args[1] + 4) = {ret}
        /\ rotate(last.pre, last.args[1]) = {ret}
        /\ (last.args[1] % 4 = 0) => (ret = last.pre)

\* The World after n calls of step(toroidal) made one after the other by a
\* caller, each on the World the call before left (a caller that carries on
\* after a call that throws).
RECURSIVE StepsInSequence(_, _, _)
StepsInSequence(w, n, toroidal) ==
    IF n = 0 THEN w
    ELSE StepsInSequence(step(w, toroidal).w, n - 1, toroidal)

\* C19: advance(n, toroidal) leaves the World, current and next grid, as n
\* successive calls of step(toroidal) leave it, each step taking the output
\* of the step before; advance(0, toroidal) changes nothing.
C19_AdvanceIsRepeatedStep ==
    (last.op = "advance") =>
        /\ world = StepsInSequence(last.pre, last.args[1], last.flag)
        /\ (last.args[1] = 0) => (world = last.pre /\ last.outcome = "ok")

\* An advance of three steps or more in which the second and the third step
\* each changed the current grid again.
C19_Witness ==
    /\ last.op = "advance" /\ last.outcome = "ok"
    /\ last.args[1] >= 3
    /\ StepsInSequence(last.pre, 1, last.flag).currentGrid # last.pre.currentGrid
    /\ StepsInSequence(last.pre, 2, last.flag).currentGrid
        # StepsInSequence(last.pre, 1, last.flag).currentGrid
    /\ StepsInSequence(last.pre, 3, last.flag).currentGrid
        # StepsInSequence(last.pre, 2, last.flag).currentGrid
    /\ world.currentGrid # last.pre.currentGrid

\* The side x side grid whose live cells are the five cells of the glider
\* shape placed at (x0, y0).
GliderShapeAt(side, x0, y0) ==
    [width |-> side, height |-> side,
     grid |-> [k \in 1..(side * side) |->
                 IF <<((k - 1) % side) - x0, ((k - 1) \div side) - y0>>
                        \in {<<1, 0>>, <<2, 1>>, <<0, 2>>, <<1, 2>>, <<2, 2>>}
                 THEN ALIVE ELSE DEAD]]

\* C20: for an all-DEAD World-sized grid with Zoo::glider() merged at any
\* offset (x0, y0) that leaves one free row and column behind the glider
\* (0..6 on the 10 x 10 grid), a World built from it and advanced 4 steps
\* with toroidal = false has as current state exactly the glider shape at
\* (x0 + 1, y0 + 1) on an otherwise DEAD grid, with 5 live cells.
C20_GliderTravels ==
    \A x0 \in 0..(GliderWorldSide - 4), y0 \in 0..(GliderWorldSide - 4) :
        (/\ last.op = "advance" /\ last.args[1] = 4 /\ ~last.flag
         /\ last.pre = WorldOf(merge(GridWH(GliderWorldSide, GliderWorldSide),
                                     glider, x0, y0, FALSE).g)) =>
            /\ last.outcome = "ok"
            /\ world.currentGrid = GliderShapeAt(GliderWorldSide, x0 + 1, y0 + 1)
            /\ AliveCount(world.currentGrid) = 5

\* The glider merged at the largest offset of the claim has been advanced 4
\* steps and now touches the right and bottom edge.
C20_Witness ==
    /\ last.op = "advance" /\ last.args[1] = 4 /\ ~last.flag /\ last.outcome = "ok"
    /\ last.pre = WorldOf(merge(GridWH(GliderWorldSide, GliderWorldSide), glider,
                                GliderWorldSide - 4, GliderWorldSide - 4, FALSE).g)
    /\ get(world.currentGrid, GliderWorldSide - 1, GliderWorldSide - 1) = ALIVE
    /\ get(last.pre.currentGrid, GliderWorldSide - 1, GliderWorldSide - 1) = DEAD

\* C21: for every Grid reachable through the public operations,
\* get_alive_cells() + get_dead_cells() = get_total_cells() = width * height.
C21_CountsAddUp ==
    /\ get_alive_cells(grid) + get_dead_cells(grid) = get_total_cells(grid)
    /\ get_total_cells(grid) = grid.width * grid.height
    /\ Len(grid.grid) = grid.width * grid.height

\* C22: for every grid g, grids of width 0 or height 0 included, load_ascii
\* applied to the file written by save_ascii(g) returns a grid with the
\* same width and height and the same get(x, y) for every (x, y).
C22_AsciiRoundTrip ==
    (last.op = "load_ascii" /\ file = save_ascii(grid)) =>
        /\ last.outcome = "ok"
        /\ ret.width = grid.width
        /\ ret.height = grid.height
        /\ \A c \in Cells(grid) : get(ret, c[1], c[2]) = get(grid, c[1], c[2])

\* The lines of a text from position pos on.
RECURSIVE LinesFrom(_, _)
LinesFrom(f, pos) ==
    IF pos > Len(f) THEN <<>>
    ELSE LET e == LineEnd(f, pos)
         IN <<SubSeq(f, pos, e - 1)>> \o LinesFrom(f, e + 1)

\* The file has the header of a w by h grid and then h data rows.
HasRows(f, w, h) ==
    LET header == Decimal(w) \o <<" ">> \o Decimal(h) \o <<NEWLINE>>
    IN /\ Len(f) >= Len(header)
       /\ SubSeq(f, 1, Len(header)) = header
       /\ Len(LinesFrom(f, Len(header) + 1)) = h

DataRow(f, w, h, k) ==
    LinesFrom(f, Len(Decimal(w) \o <<" ">> \o Decimal(h) \o <<NEWLINE>>) + 1)[k + 1]

\* C24: load_ascii raises an error for every file in which any of the
\* height data rows after the header line has a length other than width,
\* row 0 included.
C24_RowLengthChecked ==
    (last.op = "load_ascii") =>
        \A w \in Dims, h \in Dims :
            (/\ HasRows(file, w, h)
             /\ \E k \in 0..(h - 1) : Len(DataRow(file, w, h, k)) # w)
                => last.outcome = "throw"

\* The grid has no more cells than the bitset of the binary codecs has bits.
FitsBitset(g) == g.width * g.height <= BitsetSize

CeilEighth(n) == (n \div 8) + (IF n % 8 = 0 THEN 0 ELSE 1)

\* C23: for every grid g that fits the codec's buffer, save_binary writes a
\* file of exactly ceil(width * height / 8) data bytes that hold the cells in
\* row-major order, lowest bit first, with the unused high bits of the last
\* byte zero, and load_binary of that file returns a grid of the same width
\* and height with the same cells ALIVE.
C23_BinaryRoundTrip ==
    /\ (last.op = "save_binary" /\ FitsBitset(grid)) =>
        /\ last.outcome = "ok"
        /\ Len(file) = 8 + CeilEighth(grid.width * grid.height)
        /\ \A i \in 0..((8 * CeilEighth(grid.width * grid.height)) - 1) :
            (BitOf(file[9 + (i \div 8)], i % 8) = 1)
                <=> (i < grid.width * grid.height /\ grid.grid[i + 1] = ALIVE)
    /\ (/\ last.op = "load_binary"
        /\ FitsBitset(grid)
        /\ \E r \in save_binary(grid) : r.outcome = "ok" /\ r.file = file) =>
        /\ last.outcome = "ok"
        /\ ret.width = grid.width
        /\ ret.height = grid.height
        /\ \A c \in Cells(grid) :
            (get(ret, c[1], c[2]) = ALIVE) <=> (get(grid, c[1], c[2]) = ALIVE)

\* C30: whatever the width and height of the grid and the length of the
\* file, neither save_binary nor load_binary accesses its bitset at an index
\* at or beyond its capacity.
C30_BitsetIndexInRange ==
    (last.op \in {"save_binary", "load_binary"}) => last.args[1] < BitsetSize

\* The eight offsets of the 3x3 square around a cell.
NeighbourOffsets == {d \in {-1, 0, 1} \X {-1, 0, 1} : d # <<0, 0>>}

C26_BoundedCount ==
    (last.op = "count_neighbours" /\ ~last.flag) =>
        /\ last.args[3] = Cardinality(
            {d \in NeighbourOffsets :
                /\ <<last.args[1] + d[1], last.args[2] + d[2]>> \in Cells(get_state(world))
                /\ get(get_state(world), last.args[1] + d[1], last.args[2] + d[2]) = ALIVE})
        /\ last.args[3] \in 0..8

\* A count without wrap at a corner of a grid whose cells are all ALIVE:
\* the three neighbours inside the grid are counted, the centre is not.
C26_Witness ==
    /\ last.op = "count_neighbours" /\ ~last.flag
    /\ last.args[1] = 0 /\ last.args[2] = 0
    /\ get_width(world) > 1 /\ get_height(world) > 1
    /\ AliveCount(get_state(world)) = get_width(world) * get_height(world)
    /\ last.args[3] = 3

\* C27: count_neighbours(x, y, toroidal) never counts the cell (x, y)
\* itself: with either value of toroidal and any grid size, changing only
\* the value of current(x, y) does not change the count.
C27_CentreNotCounted ==
    (last.op = "count_neighbours") =>
        \A v \in Cell :
            count_neighbours(
                [world EXCEPT !.currentGrid =
                    set(world.currentGrid, last.args[1], last.args[2], v).g],
                last.args[1], last.args[2], last.flag) = last.args[3]

\* C28: World::step never changes the dimensions of the world, also when
\* the last operation was a resize to a smaller or larger size: width and
\* height after step(toroidal) are those before it, and a step that returns
\* leaves in the current grid only cells it computed, none kept from before
\* the resize.
C28_StepKeepsDimensions ==
    (last.op = "step") =>
        /\ get_width(world) = get_width(last.pre)
        /\ get_height(world) = get_height(last.pre)
        /\ (last.outcome = "ok") =>
            \A c \in Cells(get_state(world)) :
                get(get_state(world), c[1], c[2])
                    = StepCell(get(get_state(last.pre), c[1], c[2]),
                               count_neighbours(last.pre, c[1], c[2], last.flag))

\* C29: every buffer index computed by resize (both overloads), crop, merge
\* and rotate lies within the buffer it indexes, for all grids and accepted
\* arguments.
C29_IndicesInBounds ==
    /\ (last.op = "resize_square") => ResizeSquareWild(last.pre, last.args[1]) = {}
    /\ (last.op = "rotate") => RotateWild(last.pre, Quarter(last.args[1])) = {}
    /\ (last.op \in {"resize", "resize_square", "crop", "merge", "rotate"}) =>
        last.outcome # "fault"

====
